---- MODULE Spec2Model ----
(***************************************************************************)
(* Model of actix-tls/src/connect/rustls.rs: the rustls connector service *)
(* (TlsConnectorService::call) and the connect future it returns          *)
(* (ConnectFut::poll).                                                     *)
(*                                                                         *)
(* Every operation slot i of Ops stands for one invocation of call: the   *)
(* caller owns an input Connection<R, IO> whose stream is raw stream i,   *)
(* calls the service with it, polls the returned ConnectFut any number of *)
(* times and may drop it at any moment.  The TLS engine (tokio_rustls) is *)
(* outside the file; its handshake future is modelled by the course the   *)
(* handshake takes: how many polls find it not ready and how it ends.     *)
(***************************************************************************)
EXTENDS Integers, Sequences, FiniteSets, TLC

\* ---------------------------------------------------------------- bounds
MaxPending == 1    \* polls that may find one handshake not yet complete
MaxRepolls == 2    \* polls, over all operations, of an operation that has resolved
MaxAnchors == 3    \* trust anchors in the compiled-in list

\* Two operations are started from the one service and driven concurrently.
Ops == {1, 2}

\* ------------------------------------------------------------ Option<T>
None == [some |-> FALSE]
Some(v) == [some |-> TRUE, val |-> v]

\* ------------------------------------------------------------ hostnames
\* Hostnames are character sequences.  The dash-free DNS alphabet below is
\* enough for the sample hostnames.
DnsChars == {"a", "b", "e", "t"}

RECURSIVE NoEmptyLabel(_, _)
NoEmptyLabel(h, k) ==
    IF k > Len(h) THEN TRUE
    ELSE /\ (h[k] = ".") => (k > 1 /\ h[k - 1] # "." /\ k < Len(h))
         /\ NoEmptyLabel(h, k + 1)

IsDnsName(h) ==
    /\ Len(h) > 0
    /\ \A k \in 1..Len(h) : h[k] \in DnsChars \cup {"."}
    /\ NoEmptyLabel(h, 1)

\* ServerName::try_from(&str): Ok(host) for a DNS-form name, Err otherwise.
ServerNameTryFrom(h) ==
    IF IsDnsName(h) THEN [ok |-> TRUE, name |-> h] ELSE [ok |-> FALSE]

HostExample == <<"e", ".", "t">>          \* "example.test", shortened
HostAb == <<"a", "b">>                    \* a single-label name
HostEmpty == <<>>                         \* ""
HostBang == <<"a", " ", "!">>             \* "not a hostname!!", shortened

\* Request metadata R: Host (a hostname plus data the connector never reads).
Requests ==
    { [host |-> HostExample, port |-> 443],
      [host |-> HostAb, port |-> 8443],
      [host |-> HostEmpty, port |-> 443],
      [host |-> HostBang, port |-> 80] }

\* Host::hostname
hostname(req) == req.host

\* ------------------------------------------------------------ Connection
Unit == [unit |-> TRUE]                   \* the IO type () of a parked connection
RawIo(s) == [raw |-> s]                   \* the raw stream IO of operation s
TlsStream(io, host) == [tls |-> io, server |-> host]  \* AsyncTlsStream<IO>

Connection(req, io) == [req |-> req, io |-> io]

\* replace_io that hands out the old io and leaves the connection as it was.
replace_io_keep(c, io) == <<c.io, c>>

\* replace_io that rebuilds the connection from the hostname alone.
replace_io_lossy(c, io) == <<c.io, Connection([host |-> c.req.host, port |-> 0], io)>>

\* Connection::replace_io: returns (old io, connection with the new io).
replace_io(c, io) == <<c.io, Connection(c.req, io)>>

\* ------------------------------------------------------------ io::Error
IoError(kind, msg) == [kind |-> kind, msg |-> msg]

UnsupportedDestination ==
    IoError("InvalidInput", "actix-tls currently only handles hostname-based connections")

\* Errors the TLS engine can end a handshake with.
EngineErrors ==
    { IoError("InvalidData", "invalid peer certificate: NotValidForName"),
      IoError("UnexpectedEof", "tls handshake eof") }

\* ------------------------------------------------------------ Poll<T>
PollPending == [kind |-> "Pending"]
ReadyOk(c) == [kind |-> "Ok", conn |-> c]
ReadyErr(e) == [kind |-> "Err", err |-> e]
Panicked == [kind |-> "Panic"]

\* ------------------------------------------------------ tracing events
TraceStart(h) == [ev |-> "start", host |-> h]      \* "TLS handshake start for: .."
TraceSuccess(h) == [ev |-> "success", host |-> h]  \* "TLS handshake success: .."

\* ------------------------------------------- the TLS engine's handshake
\* Arc<ClientConfig>: immutable, shared by the service and every handshake.
ClientConfig == [roots |-> "webpki", id |-> "cfg"]

\* The ways a handshake can end: an encrypted stream or an engine error.
HandshakeEnds == {[ok |-> TRUE]} \cup {[ok |-> FALSE, err |-> e] : e \in EngineErrors}

\* The course a handshake takes, decided by the peer and the network:
\* `left` polls find it not yet complete, then it ends with `end`.
Plans == [left : 0..MaxPending, end : HandshakeEnds]

\* RustlsTlsConnector::from(config).connect(host, stream): the handshake
\* future RustlsConnect<IO>.  It owns the raw stream until it completes.
RustlsConnect(config, host, stream, plan) ==
    [config |-> config, server |-> host, io |-> Some(stream),
     left |-> plan.left, end |-> plan.end]

\* What a completed future may do when polled again (Future::poll contract:
\* it may panic, stay pending or return an error; it has no stream left to
\* hand out).
SpentSteps == {Panicked, PollPending, ReadyErr(IoError("Other", "polled after completion"))}

\* Pin::new(connect).poll(cx): one poll of the handshake future.  Yields the
\* Poll value, the future afterwards, whether the raw stream was used for
\* I/O, and the raw streams the future let go of.  `spent` is what the
\* future does if it has completed before.
ConnectPoll(c, spent) ==
    IF ~c.io.some THEN
        [res |-> spent, connect |-> c, used |-> FALSE, freed |-> {}]
    ELSE IF c.left > 0 THEN
        [res |-> PollPending, connect |-> [c EXCEPT !.left = @ - 1],
         used |-> TRUE, freed |-> {}]
    ELSE IF c.end.ok THEN
        [res |-> ReadyOk(TlsStream(c.io.val, c.server)),
         connect |-> [c EXCEPT !.io = None], used |-> TRUE, freed |-> {}]
    ELSE
        [res |-> ReadyErr(c.end.err),
         connect |-> [c EXCEPT !.io = None], used |-> TRUE, freed |-> {c.io.val}]

\* ---------------------------------------------------------- ConnectFut
ConnectFut(connect, connection) == [connect |-> connect, connection |-> connection]

\* call that traces the start of the handshake only once the hostname has
\* been accepted as a server name.
call_trace_late(svc, c, plan) ==
    LET split == replace_io(c, Unit)
        host == ServerNameTryFrom(hostname(split[2].req))
    IN  IF host.ok
        THEN [fut |-> ConnectFut(
                          Some(RustlsConnect(svc.connector, host.name, split[1], plan)),
                          Some(split[2])),
              events |-> <<TraceStart(hostname(c.req))>>,
              freed |-> {}]
        ELSE [fut |-> ConnectFut(None, None),
              events |-> <<>>,
              freed |-> {split[1]}]

\* call that keeps the raw stream alive when the hostname is no server name.
call_forget(svc, c, plan) ==
    LET split == replace_io(c, Unit)
        host == ServerNameTryFrom(hostname(split[2].req))
    IN  IF host.ok
        THEN [fut |-> ConnectFut(
                          Some(RustlsConnect(svc.connector, host.name, split[1], plan)),
                          Some(split[2])),
              events |-> <<TraceStart(hostname(c.req))>>,
              freed |-> {}]
        ELSE [fut |-> ConnectFut(None, None),
              events |-> <<TraceStart(hostname(c.req))>>,
              freed |-> {}]

\* call that starts the handshake and parks no metadata.
call_nopark(svc, c, plan) ==
    LET split == replace_io(c, Unit)
        host == ServerNameTryFrom(hostname(split[2].req))
    IN  IF host.ok
        THEN [fut |-> ConnectFut(
                          Some(RustlsConnect(svc.connector, host.name, split[1], plan)),
                          None),
              events |-> <<TraceStart(hostname(c.req))>>,
              freed |-> {}]
        ELSE [fut |-> ConnectFut(None, None),
              events |-> <<TraceStart(hostname(c.req))>>,
              freed |-> {split[1]}]

\* call that, when the hostname is no server name, hands the raw stream to a
\* handshake all the same.
call_lenient(svc, c, plan) ==
    LET split == replace_io(c, Unit) IN
    [fut |-> ConnectFut(
                 Some(RustlsConnect(svc.connector, hostname(c.req), split[1], plan)),
                 Some(split[2])),
     events |-> <<TraceStart(hostname(c.req))>>,
     freed |-> {}]

\* TlsConnectorService::call as a function of the service, the input
\* connection and the course the handshake will take: the future returned,
\* the events traced and the raw streams dropped at the end of call.
call(svc, c, plan) ==
    LET split == replace_io(c, Unit)
        stream == split[1]
        connection == split[2]
        host == ServerNameTryFrom(hostname(connection.req))
    IN  IF host.ok
        THEN [fut |-> ConnectFut(
                          Some(RustlsConnect(svc.connector, host.name, stream, plan)),
                          Some(connection)),
              events |-> <<TraceStart(hostname(c.req))>>,
              freed |-> {}]
        ELSE [fut |-> ConnectFut(None, None),
              events |-> <<TraceStart(hostname(c.req))>>,
              freed |-> {stream}]

\* An error conversion that reports every handshake error as the fixed
\* unsupported-destination error.
Propagate_fixed(res) == IF res.kind = "Err" THEN ReadyErr(UnsupportedDestination) ELSE res

\* ready!(..)?: a Pending and an Err of the inner poll are returned as they
\* are (the error conversion of `?` is io::Error to io::Error); a panic of
\* the inner poll unwinds through poll.
Propagate(res) == res

\* A take that reads the value and leaves it in the option.
take_peek(o) == [val |-> o.val, rest |-> o]

\* Option::take: the value, and what is left in the option.
take(o) == [val |-> o.val, rest |-> None]

\* A Failed arm that reports not-ready instead of the error.
PollFailed_pending(f) ==
    [out |-> PollPending, fut |-> f, events |-> <<>>, used |-> FALSE, freed |-> {}]

\* ConnectFut::poll, `connect` is None: the fixed error, nothing else changes.
PollFailed(f) ==
    [out |-> ReadyErr(UnsupportedDestination), fut |-> f,
     events |-> <<>>, used |-> FALSE, freed |-> {}]

\* A poll that traces the success as soon as it has polled the handshake,
\* whatever the handshake answered.
PollStream_eager_trace(f, r) ==
    LET g == [f EXCEPT !.connect = Some(r.connect)]
        ev == IF f.connection.some
              THEN <<TraceSuccess(hostname(f.connection.val.req))>> ELSE <<>>
    IN
    IF r.res.kind # "Ok" THEN
        [out |-> Propagate(r.res), fut |-> g,
         events |-> ev, used |-> r.used, freed |-> r.freed]
    ELSE IF ~f.connection.some THEN
        [out |-> Panicked, fut |-> g,
         events |-> ev, used |-> r.used, freed |-> r.freed \cup {r.res.conn.tls}]
    ELSE
        LET t == take(f.connection) IN
        [out |-> ReadyOk(replace_io(t.val, r.res.conn)[2]),
         fut |-> [g EXCEPT !.connection = t.rest],
         events |-> ev,
         used |-> r.used, freed |-> r.freed]

\* A poll that takes the parked metadata out of the future when the
\* handshake returns an error.
PollStream_errtake(f, r) ==
    LET g == [f EXCEPT !.connect = Some(r.connect)] IN
    IF r.res.kind = "Err" THEN
        [out |-> Propagate(r.res), fut |-> [g EXCEPT !.connection = None],
         events |-> <<>>, used |-> r.used, freed |-> r.freed]
    ELSE IF r.res.kind # "Ok" THEN
        [out |-> Propagate(r.res), fut |-> g,
         events |-> <<>>, used |-> r.used, freed |-> r.freed]
    ELSE
        LET t == take(f.connection) IN
        [out |-> ReadyOk(replace_io(t.val, r.res.conn)[2]),
         fut |-> [g EXCEPT !.connection = t.rest],
         events |-> <<TraceSuccess(hostname(t.val.req))>>,
         used |-> r.used, freed |-> r.freed]

\* A poll that takes the parked metadata before it polls the handshake.
PollStream_takefirst(f, r) ==
    LET g == [f EXCEPT !.connect = Some(r.connect), !.connection = None] IN
    IF ~f.connection.some THEN
        [out |-> Panicked, fut |-> g,
         events |-> <<>>, used |-> r.used, freed |-> r.freed]
    ELSE IF r.res.kind # "Ok" THEN
        [out |-> Propagate(r.res), fut |-> g,
         events |-> <<>>, used |-> r.used, freed |-> r.freed]
    ELSE
        [out |-> ReadyOk(replace_io(f.connection.val, r.res.conn)[2]),
         fut |-> g,
         events |-> <<TraceSuccess(hostname(f.connection.val.req))>>,
         used |-> r.used, freed |-> r.freed]

\* A poll that, on a handshake error, discards the failed handshake and the
\* parked metadata before it returns the error.
PollStream_discard(f, r) ==
    LET g == [f EXCEPT !.connect = Some(r.connect)] IN
    IF r.res.kind = "Err" THEN
        [out |-> Propagate(r.res), fut |-> ConnectFut(None, None),
         events |-> <<>>, used |-> r.used, freed |-> r.freed]
    ELSE IF r.res.kind # "Ok" THEN
        [out |-> Propagate(r.res), fut |-> g,
         events |-> <<>>, used |-> r.used, freed |-> r.freed]
    ELSE
        LET t == take(f.connection) IN
        [out |-> ReadyOk(replace_io(t.val, r.res.conn)[2]),
         fut |-> [g EXCEPT !.connection = t.rest],
         events |-> <<TraceSuccess(hostname(t.val.req))>>,
         used |-> r.used, freed |-> r.freed]

\* A poll that takes the completed handshake for one still in progress: it
\* drops the encrypted stream and reports not-ready.
PollStream_lost(f, r) ==
    LET g == [f EXCEPT !.connect = Some(r.connect)] IN
    IF r.res.kind = "Ok"
    THEN [out |-> PollPending, fut |-> g, events |-> <<>>,
          used |-> r.used, freed |-> r.freed \cup {r.res.conn.tls}]
    ELSE [out |-> Propagate(r.res), fut |-> g, events |-> <<>>,
          used |-> r.used, freed |-> r.freed]

\* ConnectFut::poll, `connect` is Some and its poll gave r.
PollStream(f, r) ==
    LET g == [f EXCEPT !.connect = Some(r.connect)] IN
    IF r.res.kind # "Ok" THEN
        [out |-> Propagate(r.res), fut |-> g,
         events |-> <<>>, used |-> r.used, freed |-> r.freed]
    ELSE IF ~f.connection.some THEN
        \* connection.take().unwrap() on None: the panic drops the stream
        [out |-> Panicked, fut |-> g,
         events |-> <<>>, used |-> r.used, freed |-> r.freed \cup {r.res.conn.tls}]
    ELSE
        LET t == take(f.connection) IN
        [out |-> ReadyOk(replace_io(t.val, r.res.conn)[2]),
         fut |-> [g EXCEPT !.connection = t.rest],
         events |-> <<TraceSuccess(hostname(t.val.req))>>,
         used |-> r.used, freed |-> r.freed]

\* ConnectFut::poll as a function of the future: the Poll value delivered,
\* the future afterwards, the events traced, whether the raw stream was
\* used and the raw streams released.
poll(f, spent) ==
    IF ~f.connect.some THEN PollFailed(f)
    ELSE PollStream(f, ConnectPoll(f.connect.val, spent))

\* What the inner future of f may do if it is polled after completion; a
\* future that polls no completed handshake has one way to go.
PollSteps(f) ==
    IF f.connect.some /\ ~f.connect.val.io.some THEN SpentSteps ELSE {Panicked}

\* A drop that forgets the handshake future instead of dropping it.
DropFreed_leak(f) == {}

\* Dropping a ConnectFut drops its fields: the handshake future lets go of
\* the raw stream it still owns.
DropFreed(f) ==
    IF f.connect.some /\ f.connect.val.io.some THEN {f.connect.val.io.val} ELSE {}

\* A readiness check that reports not-ready while a future is alive.
poll_ready_busy(svc, ops) ==
    IF \E i \in DOMAIN ops : ops[i] = "live" THEN PollPending ELSE ReadyOk(Unit)

\* always_ready!(): poll_ready returns Poll::Ready(Ok(())), whatever the
\* operations started from the service are doing.
poll_ready(svc, ops) == ReadyOk(Unit)

\* ---------------------------------------------------- the trust store
\* A webpki trust anchor of the compiled-in list: subject, spki and optional
\* name constraints.
AnchorSet ==
    [subject : {"CA1", "CA2"}, spki : {"key"}, name_constraints : {None, Some("nc")}]

\* The lists of at most n anchors: the lists TLS_SERVER_ROOTS is drawn from.
AnchorLists(n) == UNION {[1..m -> AnchorSet] : m \in 0..n}

\* The compiled-in list webpki_roots::TLS_SERVER_ROOTS of the connector's build.
TLS_SERVER_ROOTS ==
    << [subject |-> "CA1", spki |-> "key", name_constraints |-> None],
       [subject |-> "CA2", spki |-> "key", name_constraints |-> Some("nc")] >>

\* OwnedTrustAnchor::from_subject_spki_name_constraints: owns the three
\* parts, the subject wrapped as a DER sequence.
OwnedTrustAnchor(cert) ==
    [subject_dn |-> <<"SEQUENCE", cert.subject>>,
     spki |-> cert.spki,
     name_constraints |-> cert.name_constraints]

\* RootCertStore::empty
RootCertStoreEmpty == [roots |-> <<>>]

\* RootCertStore::add_trust_anchors: extends the store's list.
add_trust_anchors(root_certs, certs) == [roots |-> root_certs.roots \o certs]

\* The loop of webpki_roots_cert_store, from the k-th anchor on.
RECURSIVE AddRoots(_, _, _)
AddRoots(root_certs, roots, k) ==
    IF k > Len(roots) THEN root_certs
    ELSE AddRoots(add_trust_anchors(root_certs, <<OwnedTrustAnchor(roots[k])>>),
                  roots, k + 1)

\* The loop of a builder that skips an anchor the store already holds.
RECURSIVE AddRootsOnce(_, _, _)
AddRootsOnce(root_certs, roots, k) ==
    IF k > Len(roots) THEN root_certs
    ELSE IF \E j \in 1..Len(root_certs.roots) :
                root_certs.roots[j] = OwnedTrustAnchor(roots[k])
         THEN AddRootsOnce(root_certs, roots, k + 1)
         ELSE AddRootsOnce(add_trust_anchors(root_certs, <<OwnedTrustAnchor(roots[k])>>),
                           roots, k + 1)

webpki_roots_cert_store_once(roots) == AddRootsOnce(RootCertStoreEmpty, roots, 1)

\* webpki_roots_cert_store, as a function of the compiled-in anchor list.
webpki_roots_cert_store(roots) == AddRoots(RootCertStoreEmpty, roots, 1)

\* ----------------------------------------------------------------- state
VARIABLES
    service,    \* the TlsConnectorService: its shared configuration
    input,      \* input[i]: the caller's input connection, until moved into call
    pc,         \* pc[i]: "idle" before call, "live" while the future exists, "dropped"
    fut,        \* fut[i]: the ConnectFut of operation i
    outs,       \* outs[i]: what the polls of operation i delivered, in order
    released,   \* raw streams that were dropped (closed)
    used,       \* raw streams on which handshake I/O was attempted
    trace,      \* trace[i]: the diagnostic events emitted for operation i, in order
    readyOut,   \* the result of the latest readiness check of the service
    given,      \* history: given[i] is the connection operation i was created for
    course,     \* history: course[i] is the course of the handshake created for operation i
    anchors,    \* the compiled-in list of trust anchors
    store       \* the trust store returned by webpki_roots_cert_store, once built

vars == <<service, input, pc, fut, outs, released, used, trace, readyOut, given, course,
          anchors, store>>

storeVars == <<anchors, store>>

\* The connector after TlsConnector::service(config), with the input
\* connections rq the caller holds.
OpsInit(rq) ==
    /\ service = [connector |-> ClientConfig]
    /\ input = [i \in Ops |-> Some(Connection(rq[i], RawIo(i)))]
    /\ given = [i \in Ops |-> input[i].val]
    /\ course = [i \in Ops |-> None]
    /\ pc = [i \in Ops |-> "idle"]
    /\ fut = [i \in Ops |-> ConnectFut(None, None)]
    /\ outs = [i \in Ops |-> <<>>]
    /\ released = {}
    /\ used = {}
    /\ trace = [i \in Ops |-> <<>>]
    /\ readyOut = None

Init ==
    /\ \E rq \in [Ops -> Requests] : OpsInit(rq)
    /\ anchors = TLS_SERVER_ROOTS
    /\ store = None

\* ------------------------------------------------------- derived state
\* Operation i has resolved: some poll delivered something other than Pending.
Resolved(i) == \E k \in 1..Len(outs[i]) : outs[i][k] # PollPending

\* A poll of operation i panicked.
HasPanicked(i) == \E k \in 1..Len(outs[i]) : outs[i][k] = Panicked

\* Index of the poll that resolved operation i (0 when none did).
FirstResolved(i) ==
    IF Resolved(i)
    THEN CHOOSE k \in 1..Len(outs[i]) :
             /\ outs[i][k] # PollPending
             /\ \A j \in 1..(k - 1) : outs[i][j] = PollPending
    ELSE 0

\* Polls made, over all operations, after the polled operation had resolved.
RECURSIVE SumRepolls(_)
SumRepolls(S) ==
    IF S = {} THEN 0
    ELSE LET i == CHOOSE x \in S : TRUE IN
         (IF Resolved(i) THEN Len(outs[i]) - FirstResolved(i) ELSE 0) + SumRepolls(S \ {i})

Repolls == SumRepolls(Ops)

\* No operation is polled more often than a handshake within the bounds
\* needs to resolve, plus the polls after resolution.
PollCap == MaxPending + 1 + MaxRepolls

\* --------------------------------------------------------------- actions
\* The caller moves its input connection into service.call(connection).
Call(i) ==
    /\ pc[i] = "idle"
    /\ input[i].some
    /\ \E plan \in Plans :
         LET r == call(service, input[i].val, plan) IN
         /\ fut' = [fut EXCEPT ![i] = r.fut]
         /\ trace' = [trace EXCEPT ![i] = @ \o r.events]
         /\ released' = released \cup r.freed
         /\ course' = [course EXCEPT ![i] = IF r.fut.connect.some THEN Some(plan) ELSE None]
    /\ input' = [input EXCEPT ![i] = None]
    /\ pc' = [pc EXCEPT ![i] = "live"]
    /\ UNCHANGED <<service, outs, used, readyOut, given, storeVars>>

\* The caller polls the future of operation i.  A poll that panicked unwinds
\* the polling task, which does not poll that future again.
Poll(i) ==
    /\ pc[i] = "live"
    /\ ~HasPanicked(i)
    /\ Resolved(i) => Repolls < MaxRepolls
    /\ Len(outs[i]) < PollCap
    /\ \E spent \in PollSteps(fut[i]) :
         LET r == poll(fut[i], spent) IN
         /\ fut' = [fut EXCEPT ![i] = r.fut]
         /\ outs' = [outs EXCEPT ![i] = Append(@, r.out)]
         /\ trace' = [trace EXCEPT ![i] = @ \o r.events]
         /\ released' = released \cup r.freed
         /\ used' = IF r.used THEN used \cup {RawIo(i)} ELSE used
    /\ UNCHANGED <<service, input, pc, readyOut, given, course, storeVars>>

\* A drop of operation i that takes every other live operation down with it.
Drop_all(i) ==
    /\ pc[i] = "live"
    /\ released' = released \cup UNION {DropFreed(fut[j]) : j \in {k \in Ops : pc[k] = "live"}}
    /\ fut' = [j \in Ops |-> IF pc[j] = "live" THEN ConnectFut(None, None) ELSE fut[j]]
    /\ pc' = [j \in Ops |-> IF pc[j] = "live" THEN "dropped" ELSE pc[j]]
    /\ UNCHANGED <<service, input, outs, used, trace, readyOut, given, course, storeVars>>

\* The caller drops (abandons) the future of operation i.
Drop(i) ==
    /\ pc[i] = "live"
    /\ released' = released \cup DropFreed(fut[i])
    /\ fut' = [fut EXCEPT ![i] = ConnectFut(None, None)]
    /\ pc' = [pc EXCEPT ![i] = "dropped"]
    /\ UNCHANGED <<service, input, outs, used, trace, readyOut, given, course, storeVars>>

\* A readiness check of the service (Service::poll_ready).
PollReady ==
    /\ readyOut' = Some(poll_ready(service, pc))
    /\ UNCHANGED <<service, input, pc, fut, outs, released, used, trace, given, course,
                   storeVars>>

Next ==
    \/ \E i \in Ops : Call(i)
    \/ \E i \in Ops : Poll(i)
    \/ \E i \in Ops : Drop(i)
    \/ PollReady

Spec == Init /\ [][Next]_vars

\* A caller that abandons no operation and keeps polling each of them.
LiveNext ==
    \/ \E i \in Ops : Call(i)
    \/ \E i \in Ops : Poll(i)

LiveSpec == Init /\ [][LiveNext]_vars /\ \A i \in Ops : WF_vars(Poll(i))

\* The application builds its trust store: webpki_roots_cert_store().
BuildStore ==
    /\ ~store.some
    /\ store' = Some(webpki_roots_cert_store(anchors))
    /\ UNCHANGED <<service, input, pc, fut, outs, released, used, trace, readyOut, given,
                   course, anchors>>

\* The trust store builder on its own, for every anchor list within the bound.
StoreInit ==
    /\ OpsInit([i \in Ops |-> [host |-> HostExample, port |-> 443]])
    /\ anchors \in AnchorLists(MaxAnchors)
    /\ store = None

StoreNext == BuildStore

StoreSpec == StoreInit /\ [][StoreNext]_vars

\* ============================================================ properties
\* The connection operation i is to resolve to on success: the metadata it
\* was given, with the TLS stream over the raw stream it was given.
Upgraded(i) ==
    Connection(given[i].req, TlsStream(given[i].io, hostname(given[i].req)))

\* The hostname operation i was given is accepted as a server name.
ValidHost(i) == ServerNameTryFrom(hostname(given[i].req)).ok

\* Operation i has been created by call.
Called(i) == pc[i] # "idle"

\* C1: when the hostname passes validation and the handshake completes
\* successfully, the connection poll returns carries the metadata of the
\* input connection unchanged and the encrypted stream the handshake
\* produced over the raw stream that was passed in.
C1_UpgradedConnection ==
    \A i \in Ops :
        /\ (ValidHost(i) /\ course[i].some /\ course[i].val.end.ok /\ Resolved(i))
               => outs[i][FirstResolved(i)] = ReadyOk(Upgraded(i))
        /\ \A k \in 1..Len(outs[i]) :
               outs[i][k].kind = "Ok" => outs[i][k].conn = Upgraded(i)

C1_Witness ==
    \E i \in Ops :
        /\ given[i].req.port = 8443
        /\ Resolved(i)
        /\ outs[i][FirstResolved(i)] = ReadyOk(Upgraded(i))

\* C2: when the hostname fails validation, the first poll (and every poll)
\* yields the fixed unsupported-destination error, an invalid-input error;
\* no handshake is created, no I/O is attempted on the raw stream and no
\* connection is returned.
C2_InvalidHostFails ==
    \A i \in Ops :
        (Called(i) /\ ~ValidHost(i)) =>
            /\ ~fut[i].connect.some
            /\ ~course[i].some
            /\ RawIo(i) \notin used
            /\ \A k \in 1..Len(outs[i]) :
                   /\ outs[i][k] = ReadyErr(UnsupportedDestination)
                   /\ outs[i][k].err.kind = "InvalidInput"

C2_Witness ==
    \E i \in Ops :
        /\ ~ValidHost(i)
        /\ Len(outs[i]) >= 1
        /\ outs[i][1] = ReadyErr(UnsupportedDestination)

\* C3: when a pending operation is polled and the handshake fails, poll
\* returns exactly the error of the TLS engine, and no connection is
\* returned for that call, then or later.
C3_HandshakeErrorVerbatim ==
    \A i \in Ops :
        (course[i].some /\ ~course[i].val.end.ok) =>
            /\ Resolved(i) => outs[i][FirstResolved(i)] = ReadyErr(course[i].val.end.err)
            /\ \A k \in 1..Len(outs[i]) : outs[i][k].kind # "Ok"

C3_Witness ==
    \E i \in Ops :
        /\ course[i].some
        /\ ~course[i].val.end.ok
        /\ FirstResolved(i) > 1
        /\ outs[i][FirstResolved(i)] = ReadyErr(course[i].val.end.err)

\* Some poll of operation i returned a connection.
HasOk(i) == \E k \in 1..Len(outs[i]) : outs[i][k].kind = "Ok"

\* C4: for a valid hostname and a handshake that completes successfully,
\* a caller that keeps polling sees the operation resolve to success: it
\* does not stay pending forever and does not resolve to an error.
C4_EventuallySuccess ==
    \A i \in Ops :
        (pc[i] = "live" /\ course[i].some /\ course[i].val.end.ok)
            ~> (Resolved(i) /\ outs[i][FirstResolved(i)].kind = "Ok")

C4_Witness ==
    \E i \in Ops :
        /\ pc[i] = "live"
        /\ course[i].some /\ course[i].val.end.ok /\ course[i].val.left = MaxPending
        /\ Len(outs[i]) = MaxPending + 1
        /\ \A k \in 1..MaxPending : outs[i][k] = PollPending
        /\ outs[i][MaxPending + 1].kind = "Ok"

\* C5: every value a poll delivers is not-ready, a fully upgraded
\* connection (metadata together with an encrypted stream) or a terminal
\* error; never a connection without a stream or with the raw stream, never
\* a success accompanied by an error.  (A panic delivers no value.)
C5_NoDegradedResult ==
    \A i \in Ops : \A k \in 1..Len(outs[i]) :
        LET o == outs[i][k] IN
        \/ o = PollPending
        \/ o = Panicked
        \/ /\ DOMAIN o = {"kind", "err"}
           /\ o.kind = "Err"
           /\ DOMAIN o.err = {"kind", "msg"}
        \/ /\ DOMAIN o = {"kind", "conn"}
           /\ o.kind = "Ok"
           /\ DOMAIN o.conn = {"req", "io"}
           /\ o.conn.req \in Requests
           /\ DOMAIN o.conn.io = {"tls", "server"}
           /\ o.conn.io.tls = RawIo(i)

C5_Witness ==
    /\ \E i \in Ops : \E k \in 1..Len(outs[i]) : outs[i][k] = PollPending
    /\ \E i \in Ops : \E k \in 1..Len(outs[i]) : outs[i][k].kind = "Ok"
    /\ \E i \in Ops : \E k \in 1..Len(outs[i]) :
           outs[i][k].kind = "Err" /\ outs[i][k].err \in EngineErrors

\* C6 as stated: an operation that resolved to success stays resolved, so
\* every further poll returns success again.
C6_SuccessStaysResolved ==
    \A i \in Ops : \A k \in 1..Len(outs[i]) :
        (Resolved(i) /\ outs[i][FirstResolved(i)].kind = "Ok" /\ k > FirstResolved(i))
            => outs[i][k].kind = "Ok"

\* C6 as amended: an operation in the Failed state returns the same error
\* on a further poll, but an operation that resolved to success does not
\* stay resolved: its metadata has been taken and its handshake future is
\* spent, so a further poll polls the completed handshake future again and
\* panics, reports not-ready or reports an error; it never returns a second
\* connection.
C6_NoSecondSuccess ==
    \A i \in Ops :
        /\ Cardinality({k \in 1..Len(outs[i]) : outs[i][k].kind = "Ok"}) <= 1
        /\ (HasOk(i) /\ pc[i] = "live") =>
               /\ ~fut[i].connection.some
               /\ fut[i].connect.some
               /\ ~fut[i].connect.val.io.some
        /\ \A k \in 1..Len(outs[i]) :
               (Resolved(i) /\ k > FirstResolved(i)) =>
                   IF outs[i][FirstResolved(i)].kind = "Ok"
                   THEN outs[i][k] \in SpentSteps
                   ELSE (~ValidHost(i) => outs[i][k] = outs[i][FirstResolved(i)])

C6_Witness ==
    \E i \in Ops :
        /\ Resolved(i)
        /\ outs[i][FirstResolved(i)].kind = "Ok"
        /\ Len(outs[i]) > FirstResolved(i)

\* C7: an operation created in the Failed state yields the same fixed
\* unsupported-destination error on every poll, and each such poll leaves
\* the operation's state unchanged: no handshake, no parked metadata.
C7_FailedIdempotent ==
    [][\A i \in Ops :
          (pc[i] = "live" /\ fut[i] = ConnectFut(None, None)) =>
              /\ fut'[i] = ConnectFut(None, None)
              /\ \/ outs'[i] = outs[i]
                 \/ outs'[i] = Append(outs[i], ReadyErr(UnsupportedDestination))]_vars

C7_Witness ==
    \E i \in Ops :
        /\ pc[i] = "live"
        /\ fut[i] = ConnectFut(None, None)
        /\ Len(outs[i]) = 1 + MaxRepolls
        /\ \A k \in 1..Len(outs[i]) : outs[i][k] = ReadyErr(UnsupportedDestination)

\* The owners of raw stream s: input connections, handshake futures, parked
\* connections and returned connections that hold it, and its release.
InputOwners(s) == {i \in Ops : input[i].some /\ input[i].val.io = s}

HandshakeOwners(s) ==
    {i \in Ops : pc[i] = "live" /\ fut[i].connect.some /\ fut[i].connect.val.io = Some(s)}

ParkedOwners(s) ==
    {i \in Ops : pc[i] = "live" /\ fut[i].connection.some /\ fut[i].connection.val.io = s}

ResultOwners(s) ==
    {p \in Ops \X (1..PollCap) :
        /\ p[2] <= Len(outs[p[1]])
        /\ outs[p[1]][p[2]].kind = "Ok"
        /\ \/ outs[p[1]][p[2]].conn.io = s
           \/ outs[p[1]][p[2]].conn.io = TlsStream(s, hostname(outs[p[1]][p[2]].conn.req))}

Owners(s) ==
    Cardinality(InputOwners(s)) + Cardinality(HandshakeOwners(s))
        + Cardinality(ParkedOwners(s)) + Cardinality(ResultOwners(s))
        + (IF s \in released THEN 1 ELSE 0)

\* C8: the raw stream passed to call always has exactly one owner: the
\* caller's input connection before call; then the handshake in flight
\* (valid hostname) or nobody, released (invalid hostname); then the
\* encrypted stream of the returned connection on success, or released on
\* failure or abandonment.
C8_SingleOwner ==
    \A i \in Ops :
        LET s == RawIo(i) IN
        /\ Owners(s) = 1
        /\ ~Called(i) => InputOwners(s) = {i}
        /\ (Called(i) /\ ~ValidHost(i)) => s \in released
        /\ (pc[i] = "live" /\ ValidHost(i) /\ ~Resolved(i)) => HandshakeOwners(s) = {i}
        /\ HasOk(i) => ResultOwners(s) = {<<i, FirstResolved(i)>>}
        /\ (Resolved(i) /\ ~HasOk(i)) => s \in released
        /\ (pc[i] = "dropped" /\ ~HasOk(i)) => s \in released

C8_Witness ==
    /\ \E i \in Ops : pc[i] = "live" /\ HandshakeOwners(RawIo(i)) = {i} /\ Len(outs[i]) > 0
    /\ \E i \in Ops : pc[i] = "dropped" /\ HasOk(i) /\ RawIo(i) \notin released

\* C9: dropping an operation that is still pending releases the raw stream
\* and the parked metadata; the handshake never completes afterwards and
\* nothing, neither success nor error nor panic, is delivered by or after
\* the drop.
C9_DropPending ==
    [][\A i \in Ops :
          /\ (pc[i] = "live" /\ pc'[i] = "dropped"
                 /\ fut[i].connect.some /\ fut[i].connect.val.io.some) =>
                 /\ RawIo(i) \in released'
                 /\ fut'[i] = ConnectFut(None, None)
                 /\ outs'[i] = outs[i]
                 /\ trace'[i] = trace[i]
          /\ pc[i] = "dropped" =>
                 /\ pc'[i] = "dropped"
                 /\ fut'[i] = fut[i]
                 /\ outs'[i] = outs[i]
                 /\ trace'[i] = trace[i]
                 /\ (RawIo(i) \in used') = (RawIo(i) \in used)]_vars

C9_Witness ==
    \E i \in Ops :
        /\ pc[i] = "dropped"
        /\ course[i].some
        /\ Len(outs[i]) = MaxPending
        /\ ~Resolved(i)
        /\ RawIo(i) \in released

\* C10: the service reports ready on every readiness check, in every
\* reachable state, whatever the operations it started are doing; it holds
\* nothing but its configuration, and call can always be invoked again.
C10_AlwaysReady ==
    /\ readyOut.some => readyOut.val = ReadyOk(Unit)
    /\ poll_ready(service, pc) = ReadyOk(Unit)
    /\ service = [connector |-> ClientConfig]
    /\ \A i \in Ops : pc[i] = "idle" => ENABLED Call(i)

C10_Witness ==
    /\ readyOut = Some(ReadyOk(Unit))
    /\ \E i \in Ops : pc[i] = "live" /\ course[i].some /\ ~Resolved(i)
    /\ \E i \in Ops : pc[i] = "dropped"

\* C11: for one operation the start event is emitted at call time, before
\* the hostname is validated (so also when validation fails), and a success
\* event comes strictly after the start event of the same operation; no
\* operation emits a success event without a preceding start event.
C11_StartBeforeSuccess ==
    \A i \in Ops :
        /\ ~Called(i) => trace[i] = <<>>
        /\ Called(i) =>
               /\ Len(trace[i]) >= 1
               /\ trace[i][1] = TraceStart(hostname(given[i].req))
        /\ \A k \in 1..Len(trace[i]) :
               trace[i][k].ev = "success" =>
                   /\ k > 1
                   /\ \E j \in 1..(k - 1) : trace[i][j].ev = "start"
        /\ \A k \in 2..Len(trace[i]) : trace[i][k].ev # "start"

C11_Witness ==
    /\ \E i \in Ops :
           trace[i] = <<TraceStart(hostname(given[i].req)),
                        TraceSuccess(hostname(given[i].req))>>
    /\ \E i \in Ops :
           ~ValidHost(i) /\ trace[i] = <<TraceStart(hostname(given[i].req))>>

\* C12: the default trust store builder returns a store with exactly one
\* entry per compiled-in trust anchor, in the order of the anchor list,
\* duplicates kept; it has no failure outcome.
C12_StorePerAnchor ==
    /\ ~store.some => ENABLED BuildStore
    /\ store.some =>
           /\ DOMAIN store.val = {"roots"}
           /\ Len(store.val.roots) = Len(anchors)
           /\ \A k \in 1..Len(anchors) : store.val.roots[k] = OwnedTrustAnchor(anchors[k])

C12_Witness ==
    /\ store.some
    /\ Len(anchors) = MaxAnchors
    /\ anchors[1] = anchors[MaxAnchors]
    /\ anchors[1] # anchors[2]
    /\ Len(store.val.roots) = MaxAnchors

\* C13: the Failed state (no handshake) is entered only by call, on a
\* hostname that is no server name: no poll of a pending operation, whether
\* it returns not-ready, success or a handshake error, moves the operation
\* into it, so an operation created pending never yields the
\* unsupported-destination error.
C13_FailedOnlyByCall ==
    [][\A i \in Ops :
          /\ (pc[i] = "idle" /\ pc'[i] = "live") =>
                 (fut'[i].connect.some <=> ValidHost(i))
          /\ (pc[i] = "live" /\ pc'[i] = "live" /\ fut[i].connect.some) =>
                 fut'[i].connect.some
          /\ course'[i].some =>
                 \A k \in 1..Len(outs'[i]) :
                     outs'[i][k] # ReadyErr(UnsupportedDestination)]_vars

C13_Witness ==
    \E i \in Ops :
        /\ pc[i] = "live"
        /\ course[i].some
        /\ fut[i].connect.some
        /\ Resolved(i)
        /\ outs[i][FirstResolved(i)].kind = "Err"
        /\ FirstResolved(i) > 1
        /\ Len(outs[i]) > FirstResolved(i)

\* The handshake operation of a future, apart from the progress it has made.
Handshake(c) == [config |-> c.config, server |-> c.server, io |-> c.io, end |-> c.end]

\* C14: polling a pending operation whose handshake is not yet complete
\* returns not-ready and leaves the operation's own state unchanged: it
\* still holds the same handshake operation and the same parked metadata,
\* and no success event is emitted.
C14_PendingPollKeepsState ==
    [][\A i \in Ops :
          (/\ pc[i] = "live"
           /\ fut[i].connect.some
           /\ fut[i].connect.val.io.some
           /\ fut[i].connect.val.left > 0
           /\ outs'[i] # outs[i]) =>
              /\ outs'[i] = Append(outs[i], PollPending)
              /\ pc'[i] = "live"
              /\ fut'[i].connect.some
              /\ Handshake(fut'[i].connect.val) = Handshake(fut[i].connect.val)
              /\ fut'[i].connection = fut[i].connection
              /\ fut'[i].connection = Some(Connection(given[i].req, Unit))
              /\ trace'[i] = trace[i]
              /\ released' = released]_vars

C14_Witness ==
    \E i \in Ops :
        /\ pc[i] = "live"
        /\ Len(outs[i]) = MaxPending
        /\ \A k \in 1..Len(outs[i]) : outs[i][k] = PollPending
        /\ fut[i].connect.some
        /\ fut[i].connect.val.io = Some(RawIo(i))
        /\ fut[i].connection = Some(Connection(given[i].req, Unit))

\* C15: an operation that holds a handshake operation able to report
\* success also holds its parked metadata, the metadata call was given; so
\* the poll that observes the handshake succeed finds it, and a poll panics
\* only when the operation had resolved before.
C15_MetadataParked ==
    \A i \in Ops :
        /\ (fut[i].connect.some /\ fut[i].connect.val.io.some) =>
               fut[i].connection = Some(Connection(given[i].req, Unit))
        /\ \A k \in 1..Len(outs[i]) :
               outs[i][k] = Panicked => (Resolved(i) /\ FirstResolved(i) < k)

C15_Witness ==
    \E i \in Ops :
        /\ pc[i] = "live"
        /\ course[i].some /\ course[i].val.end.ok
        /\ Len(outs[i]) = course[i].val.left + 1
        /\ outs[i][Len(outs[i])] = ReadyOk(Upgraded(i))
        /\ ~fut[i].connection.some
        /\ ~fut[i].connect.val.io.some

\* Operation i was created with a handshake and a poll of it has returned
\* the handshake's error.
HandshakeFailed(i) ==
    /\ course[i].some
    /\ Resolved(i)
    /\ outs[i][FirstResolved(i)].kind = "Err"

\* C16 as stated: after a poll of a pending operation has returned a
\* handshake error, the operation holds neither the parked metadata nor
\* the failed handshake operation.
C16_DiscardedByPoll ==
    \A i \in Ops :
        (pc[i] = "live" /\ HandshakeFailed(i)) =>
            (~fut[i].connection.some /\ ~fut[i].connect.some)

\* C16: after a poll of a pending operation has returned a handshake
\* error, the operation still holds the parked metadata and the completed
\* handshake operation, which has let go of the raw stream, for as long as
\* the caller keeps it, further polls included; dropping the operation is
\* what discards both.
C16_HeldUntilDropped ==
    \A i \in Ops :
        HandshakeFailed(i) =>
            IF pc[i] = "live"
            THEN /\ fut[i].connection = Some(Connection(given[i].req, Unit))
                 /\ fut[i].connect.some
                 /\ fut[i].connect.val.io = None
                 /\ fut[i].connect.val.server = hostname(given[i].req)
                 /\ RawIo(i) \in released
            ELSE /\ pc[i] = "dropped"
                 /\ fut[i] = ConnectFut(None, None)

C16_Witness ==
    \E i \in Ops :
        /\ pc[i] = "live"
        /\ HandshakeFailed(i)
        /\ Len(outs[i]) = FirstResolved(i)
        /\ fut[i].connection.some
        /\ fut[i].connect.some

\* Everything that belongs to operation i: its input, its future, what its
\* polls delivered and traced, and where its raw stream is.
OpState(i) ==
    <<input[i], pc[i], fut[i], outs[i], trace[i], given[i], course[i],
      RawIo(i) \in released, RawIo(i) \in used>>

\* The outcome operation i resolves to, from its own input connection and
\* the result of its own handshake.
Outcome(i) ==
    IF ~ValidHost(i) THEN ReadyErr(UnsupportedDestination)
    ELSE IF course[i].val.end.ok THEN ReadyOk(Upgraded(i))
    ELSE ReadyErr(course[i].val.end.err)

\* C17: operations started from the same service are independent under
\* every interleaving: a call, poll or drop of one operation changes
\* nothing that belongs to another operation and leaves the shared
\* configuration as it is, and the outcome an operation resolves to is
\* determined by its own input connection and its own handshake result.
C17_Independent ==
    [][/\ service' = service
       /\ \A i \in Ops : \A j \in Ops \ {i} :
              (OpState(i)' # OpState(i)) => (OpState(j)' = OpState(j))
       /\ \A i \in Ops :
              Resolved(i)' => outs'[i][FirstResolved(i)'] = Outcome(i)']_vars

C17_Witness ==
    \E i \in Ops : \E j \in Ops \ {i} :
        /\ Resolved(i) /\ FirstResolved(i) > 1
        /\ outs[i][FirstResolved(i)] = ReadyOk(Upgraded(i))
        /\ pc[j] = "dropped"
        /\ Len(outs[j]) = 1 /\ outs[j][1] = PollPending
        /\ RawIo(j) \in released
        /\ ~(RawIo(i) \in released)

\* The positions of the success events operation i has traced.
SuccessEvents(i) == {k \in 1..Len(trace[i]) : trace[i][k].ev = "success"}

\* The polls of operation i that returned a connection.
OkPolls(i) == {k \in 1..Len(outs[i]) : outs[i][k].kind = "Ok"}

\* C18: the success event is emitted at most once per operation and only
\* by the poll that returns the upgraded connection; an operation that
\* resolves to a handshake error, that was created in the Failed state or
\* that is dropped while pending never emits it.
C18_SuccessTracedOnce ==
    [][\A i \in Ops :
          /\ Cardinality(SuccessEvents(i)') <= 1
          /\ Cardinality(SuccessEvents(i)') = Cardinality(OkPolls(i)')
          /\ (SuccessEvents(i)' # SuccessEvents(i)) =>
                 /\ outs'[i] = Append(outs[i], ReadyOk(Upgraded(i)))
                 /\ trace'[i] = Append(trace[i], TraceSuccess(hostname(given[i].req)))
          /\ (HandshakeFailed(i)' \/ (Called(i)' /\ ~ValidHost(i)')
                \/ (pc'[i] = "dropped" /\ ~Resolved(i)')) =>
                 SuccessEvents(i)' = {}]_vars

C18_Witness ==
    \E i \in Ops : \E j \in Ops \ {i} :
        /\ trace[i] = <<TraceStart(hostname(given[i].req)),
                        TraceSuccess(hostname(given[i].req))>>
        /\ Len(outs[i]) > FirstResolved(i)
        /\ HandshakeFailed(j)
        /\ trace[j] = <<TraceStart(hostname(given[j].req))>>

====
